---------------------------- MODULE Spec2Model ----------------------------
(***************************************************************************)
(* Model of tsbean-driver-postgres (src/src/driver.ts, src/src/filtering.ts)*)
(*                                                                         *)
(* SpecStream : findStream / findStreamSync, the cursor pull loop over a   *)
(*              pooled connection (driver.ts 237-336).                     *)
(* SpecWrite  : insert / batchInsert / update / updateMany issuing         *)
(*              statements through pool.query (driver.ts 345-503).         *)
(*                                                                         *)
(* A result set is the sequence of row numbers 1..N in result order; the   *)
(* key renaming done by parseResults does not reorder, drop or duplicate   *)
(* rows, so a delivered row is identified by its number.                   *)
(***************************************************************************)
EXTENDS Integers, Sequences, FiniteSets, TLC

\* ------------------------------------------------------------------ bounds
MaxRows == 250          \* largest result set a stream is run against
NumStreams == 2         \* stream calls that exist in the model
MaxFields == 2          \* fields of an update descriptor
MaxBatch == 3           \* rows handed to batchInsert
MaxConcRows == 1        \* rows of a non-empty result set when calls run concurrently
MaxChildren == 2        \* children of an and / or filter node
MaxPattern == 3         \* characters of the source of a regular expression
MaxIdent == 4           \* characters of an identifier given to the converters

\* --------------------------------------------------------- program constants
CURSOR_READ_AMOUNT == 100      \* driver.ts:11
DefaultConnections == 4        \* driver.ts:56  (config.connections || 4)

Streams == 1..NumStreams

VARIABLES
    \* ---- stream calls (one entry per call)
    pc,              \* position of the async executor of each call
    mode,            \* "async" (findStream) | "sync" (findStreamSync) | "none"
    rows,            \* N: size of the result set the cursor of the call yields
    cursorPos,       \* pg-cursor: rows already handed out
    partialResults,  \* the batch being iterated (for ... of partialResults)
    idx,             \* position of the for-of iterator in partialResults
    delivered,       \* rows the handler `each` was invoked with, in order
    running,         \* rows whose (async) handler started and has not settled
    readReq,         \* amounts requested by cursor.read, in order of issue
    readGot,         \* what each read's callback got: row count, or -1 = err
    closes,          \* cursor.close calls
    releases,        \* client.release calls
    outcome,         \* promise returned to the caller: none|pending|resolved|rejected
    failure,         \* reason the returned promise was rejected with
    handlerErr,      \* row whose handler threw / rejected (0 = none)
    execPromise,     \* promise of the async executor itself (nobody awaits it)
    \* ---- pool
    poolMax,         \* Pool({max: config.connections || 4})
    client,          \* const client = await this.pool.connect(): pool client held (0 = none)
    checkedOut,      \* calls holding a client of the pool
    \* ---- statement calls (insert, batchInsert, update, updateMany)
    conversion,      \* idConversion: "default" (snake case) | "disabled" (identity)
    call,            \* the driver call in progress or last made
    queries,         \* statements that call handed to pool.query, in order
    qres,            \* per statement: "pending" | "ok" | "error"
    cbLog            \* values the insert callback was invoked with

streamVars == <<pc, mode, rows, cursorPos, partialResults, idx, delivered, running,
                readReq, readGot, closes, releases, outcome, failure, handlerErr,
                execPromise, poolMax, client, checkedOut>>

writeVars == <<conversion, call, queries, qres, cbLog>>

vars == <<streamVars, writeVars>>

\* ------------------------------------------------------------------ helpers
Min(a, b) == IF a < b THEN a ELSE b

\* rows a+1 .. b of the result set, as a sequence
RowRange(a, b) == [i \in 1..(b - a) |-> a + i]

\* pg-cursor read(n) on a healthy cursor: the next n rows, fewer at the end,
\* none once the portal is exhausted
CursorRows(pos, n, total) == RowRange(pos, Min(pos + n, total))

\* ------------------------------------------------- identifiers and values
(* An identifier is a sequence of one-character strings.  A statement is a  *)
(* sequence of text pieces; every placeholder ? and every character of an   *)
(* identifier is a piece of its own, so that scanning the text for ? sees   *)
(* them.                                                                    *)
(* A value is a record tagged with its JavaScript type:                     *)
(*   [t |-> "null"], [t |-> "undefined"], [t |-> "number", v |-> n],        *)
(*   [t |-> "boolean", v |-> 0 or 1], [t |-> "string", s |-> characters],   *)
(*   [t |-> "object", update |-> "set" | "inc" | "other", value |-> n]      *)
(*   (an object; update and value are its fields of those names), and       *)
(*   [t |-> "json", of |-> object] for the JSON text of an object.          *)

LowerOf == [c \in {"A", "B", "D", "I", "N"} |->
               CASE c = "A" -> "a" [] c = "B" -> "b" [] c = "D" -> "d"
                 [] c = "I" -> "i" [] c = "N" -> "n"]

\* String.prototype.toLowerCase on one character
ToLowerCase(c) == IF c \in DOMAIN LowerOf THEN LowerOf[c] ELSE c

\* String.prototype.toUpperCase on one character
ToUpperCase(c) ==
    IF \E u \in DOMAIN LowerOf : LowerOf[u] = c
    THEN CHOOSE u \in DOMAIN LowerOf : LowerOf[u] = c
    ELSE c

RECURSIVE toSnakeCase(_)
toSnakeCase(camel) ==
    IF camel = << >> THEN << >>
    ELSE LET c == Head(camel) IN
         (IF ToLowerCase(c) # c THEN <<"_", ToLowerCase(c)>> ELSE <<c>>)
             \o toSnakeCase(Tail(camel))

\* the loop of toCamelCase over the rest of the identifier
RECURSIVE CamelLoop(_, _)
CamelLoop(snake, nextUpper) ==
    IF snake = << >> THEN << >>
    ELSE LET c == Head(snake) IN
         IF c = "_"
         THEN CamelLoop(Tail(snake), TRUE)
         ELSE <<IF nextUpper THEN ToUpperCase(c) ELSE ToLowerCase(c)>>
                  \o CamelLoop(Tail(snake), FALSE)

toCamelCase(snake) == CamelLoop(snake, FALSE)

\* this.idConversion.toSQL
toSQL(n) == IF conversion = "default" THEN toSnakeCase(n) ELSE n

IsNullish(val) == val.t \in {"null", "undefined"}

NullValue == [t |-> "null"]

toSQLCompatibleValue(val) ==
    CASE val.t \in {"null", "undefined"} -> NullValue
      [] val.t \in {"number", "string", "date"} -> val
      [] val.t = "object" -> [t |-> "json", of |-> val]
      [] val.t = "bigint" -> [t |-> "string", s |-> val.digits]
      [] val.t = "boolean" -> [t |-> "number", v |-> IF val.v = 1 THEN 1 ELSE 0]
      [] OTHER -> NullValue

\* "\"" + this.idConversion.toSQL(k) + "\""
Quoted(id) == <<"\"">> \o toSQL(id) \o <<"\"">>

\* Array.prototype.join on a list of text-piece sequences
RECURSIVE Join(_, _)
Join(parts, sep) ==
    IF parts = << >> THEN << >>
    ELSE IF Len(parts) = 1 THEN parts[1]
    ELSE parts[1] \o <<sep>> \o Join(Tail(parts), sep)

HasPlaceholder(q) == \E p \in 1..Len(q) : q[p] = "?"

FirstPlaceholder(q) ==
    CHOOSE p \in 1..Len(q) : q[p] = "?" /\ \A r \in 1..(p - 1) : q[r] # "?"

\* while (queryTemplate.indexOf("?") >= 0) replace the first ? by $i; i++
RECURSIVE ReplaceLoop(_, _)
ReplaceLoop(q, i) ==
    IF HasPlaceholder(q)
    THEN ReplaceLoop([q EXCEPT ![FirstPlaceholder(q)] = "$" \o ToString(i)], i + 1)
    ELSE q

toPostgresTemplate(queryTemplate) == ReplaceLoop(queryTemplate, 1)

\* one pass of String.prototype.replace(/[c]/g, "\\" + c)
RECURSIVE EscapeChar(_, _)
EscapeChar(str, c) ==
    IF str = << >> THEN << >>
    ELSE (IF Head(str) = c THEN <<"\\", c>> ELSE <<Head(str)>>)
             \o EscapeChar(Tail(str), c)

replaceLikeWildcards(str) == EscapeChar(EscapeChar(str, "%"), "_")

\* the loop of reverseRegexp over the rest of the source
RECURSIVE ReverseLoop(_, _)
ReverseLoop(source, nextEscape) ==
    IF source = << >> THEN << >>
    ELSE LET c == Head(source) IN
         IF c = "\\"
         THEN IF nextEscape
              THEN <<c>> \o ReverseLoop(Tail(source), FALSE)
              ELSE ReverseLoop(Tail(source), TRUE)
         ELSE <<c>> \o ReverseLoop(Tail(source), FALSE)

reverseRegexp(exp) == ReverseLoop(exp.source, FALSE)

\* ------------------------------------------------------------ filterToSQL
(* A filter is [operation |-> "null"] for a null filter, or a record with  *)
(* the fields of tsbean-orm's GenericFilter for its operation.             *)

NoFilterSQL == [query |-> << >>, values |-> << >>]

RECURSIVE filterToSQL(_)
RECURSIVE JoinChildren(_, _, _)

\* variant of JoinChildren: a child with an empty fragment is joined as well
JoinChildren_keepsEmpty(children, n, sep) ==
    IF n = 0 THEN NoFilterSQL
    ELSE LET acc == JoinChildren(children, n - 1, sep)
             child == filterToSQL(children[n])
         IN  [query |-> acc.query
                           \o (IF acc.query = << >> THEN << >> ELSE <<sep>>)
                           \o <<"( ">> \o child.query \o <<" )">>,
              values |-> acc.values \o child.values]

\* variant of JoinChildren: a child's values are put in front of the list
JoinChildren_valuesInFront(children, n, sep) ==
    IF n = 0 THEN NoFilterSQL
    ELSE LET acc == JoinChildren(children, n - 1, sep)
             child == filterToSQL(children[n])
         IN  IF Len(child.query) > 0
             THEN [query |-> acc.query
                               \o (IF acc.query = << >> THEN << >> ELSE <<sep>>)
                               \o <<"( ">> \o child.query \o <<" )">>,
                   values |-> child.values \o acc.values]
             ELSE acc

\* the loop of the "and" / "or" cases over the first n children
JoinChildren(children, n, sep) ==
    IF n = 0 THEN NoFilterSQL
    ELSE LET acc == JoinChildren(children, n - 1, sep)
             child == filterToSQL(children[n])
         IN  IF Len(child.query) > 0
             THEN [query |-> acc.query
                               \o (IF acc.query = << >> THEN << >> ELSE <<sep>>)
                               \o <<"( ">> \o child.query \o <<" )">>,
                   values |-> acc.values \o child.values]
             ELSE acc

\* the loop of the "in" case over the first n values
RECURSIVE InSubquery(_, _, _)
InSubquery(field, vals, n) ==
    IF n = 0 THEN NoFilterSQL
    ELSE LET acc == InSubquery(field, vals, n - 1) IN
         [query |-> acc.query \o (IF n = 1 THEN << >> ELSE <<" OR ">>)
                       \o <<"(">> \o Quoted(field) \o <<" = ", "?", ")">>,
          values |-> Append(acc.values, vals[n])]

filterToSQL(filter) ==
    CASE filter.operation = "null" -> NoFilterSQL
      [] filter.operation = "and" ->
            JoinChildren(filter.children, Len(filter.children), " AND ")
      [] filter.operation = "or" ->
            JoinChildren(filter.children, Len(filter.children), " OR ")
      [] filter.operation = "not" ->
            LET child == filterToSQL(filter.child) IN
            IF Len(child.query) > 0
            THEN [query |-> <<"NOT( ">> \o child.query \o <<" )">>,
                  values |-> child.values]
            ELSE NoFilterSQL
      [] filter.operation = "regex" ->
            LET rStr == reverseRegexp(filter.regexp)
                n == Len(rStr)
            IN  [query |->
                    IF \E i \in 1..Len(filter.regexp.flags) : filter.regexp.flags[i] = "i"
                    THEN <<"UPPER(">> \o Quoted(filter.key) \o <<") LIKE UPPER(", "?", ")">>
                    ELSE Quoted(filter.key) \o <<" LIKE ", "?">>,
                 values |->
                    IF n > 0 /\ rStr[1] = "^"
                    THEN <<[t |-> "string",
                            s |-> replaceLikeWildcards(SubSeq(rStr, 2, n)) \o <<"%">>]>>
                    ELSE IF n > 0 /\ rStr[n] = "$"
                    THEN <<[t |-> "string",
                            s |-> <<"%">> \o replaceLikeWildcards(SubSeq(rStr, 1, n - 1))]>>
                    ELSE <<[t |-> "string",
                            s |-> <<"%">> \o replaceLikeWildcards(rStr) \o <<"%">>]>>]
      [] filter.operation = "in" ->
            LET sub == InSubquery(filter.key, filter.values, Len(filter.values)) IN
            IF Len(sub.query) > 0
            THEN [query |-> <<"(">> \o sub.query \o <<")">>, values |-> sub.values]
            ELSE [query |-> << >>, values |-> sub.values]
      [] filter.operation = "exists" ->
            [query |-> Quoted(filter.key)
                         \o (IF filter.exists THEN <<" IS NOT NULL">> ELSE <<" IS NULL">>),
             values |-> << >>]
      [] filter.operation = "eq" ->
            IF IsNullish(filter.value)
            THEN [query |-> Quoted(filter.key) \o <<" IS NULL">>, values |-> << >>]
            ELSE [query |-> Quoted(filter.key) \o <<" = ", "?">>,
                  values |-> <<filter.value>>]
      [] filter.operation = "ne" ->
            IF IsNullish(filter.value)
            THEN [query |-> Quoted(filter.key) \o <<" IS NOT NULL">>, values |-> << >>]
            ELSE [query |-> Quoted(filter.key) \o <<" != ", "?">>,
                  values |-> <<filter.value>>]
      [] filter.operation = "gt" ->
            [query |-> Quoted(filter.key) \o <<" > ", "?">>, values |-> <<filter.value>>]
      [] filter.operation = "lt" ->
            [query |-> Quoted(filter.key) \o <<" < ", "?">>, values |-> <<filter.value>>]
      [] filter.operation = "gte" ->
            [query |-> Quoted(filter.key) \o <<" >= ", "?">>, values |-> <<filter.value>>]
      [] filter.operation = "lte" ->
            [query |-> Quoted(filter.key) \o <<" <= ", "?">>, values |-> <<filter.value>>]
      [] OTHER -> NoFilterSQL

\* ------------------------------------------------------------ stream actions

\* variant of IssueRead: one row is requested per round trip, cursor.read(1, cb)
IssueRead_oneRow(s) ==
    /\ readReq' = [readReq EXCEPT ![s] = Append(@, 1)]
    /\ pc' = [pc EXCEPT ![s] = "reading"]

\* cursor.read(CURSOR_READ_AMOUNT, cb) at the top of the while loop
IssueRead(s) ==
    /\ readReq' = [readReq EXCEPT ![s] = Append(@, CURSOR_READ_AMOUNT)]
    /\ pc' = [pc EXCEPT ![s] = "reading"]

\* findStream(...): builds the sentence, starts the executor, pool.connect()
FindStream(s) ==
    /\ UNCHANGED writeVars
    /\ pc[s] = "idle"
    /\ pc' = [pc EXCEPT ![s] = "connecting"]
    /\ mode' = [mode EXCEPT ![s] = "async"]
    /\ outcome' = [outcome EXCEPT ![s] = "pending"]
    /\ execPromise' = [execPromise EXCEPT ![s] = "pending"]
    /\ UNCHANGED <<rows, cursorPos, partialResults, idx, delivered, running, readReq,
                   readGot, closes, releases, failure, handlerErr, poolMax, client, checkedOut>>

\* findStreamSync(...): the same with a synchronous handler
FindStreamSync(s) ==
    /\ UNCHANGED writeVars
    /\ pc[s] = "idle"
    /\ pc' = [pc EXCEPT ![s] = "connecting"]
    /\ mode' = [mode EXCEPT ![s] = "sync"]
    /\ outcome' = [outcome EXCEPT ![s] = "pending"]
    /\ execPromise' = [execPromise EXCEPT ![s] = "pending"]
    /\ UNCHANGED <<rows, cursorPos, partialResults, idx, delivered, running, readReq,
                   readGot, closes, releases, failure, handlerErr, poolMax, client, checkedOut>>

\* least element of a non-empty set of numbers
Lowest(S) == CHOOSE x \in S : \A y \in S : x <= y

\* clients of the pool (at most poolMax exist) that no call holds
IdleClients == (1..poolMax) \ {client[t] : t \in checkedOut}

\* variant: one client kept for every call instead of a checkout per call
ConnectResolved_sharedClient(s) ==
    /\ UNCHANGED writeVars
    /\ pc[s] = "connecting"
    /\ checkedOut' = checkedOut \cup {s}
    /\ client' = [client EXCEPT ![s] = 1]
    /\ IssueRead(s)
    /\ UNCHANGED <<mode, rows, cursorPos, partialResults, idx, delivered, running,
                   readGot, closes, releases, outcome, failure, handlerErr,
                   execPromise, poolMax>>

\* await this.pool.connect() resolves with an idle client of the pool (the pool
\* keeps the call waiting while all its clients are out); the cursor is created
\* on that client and the first read issued
ConnectResolved(s) ==
    /\ UNCHANGED writeVars
    /\ pc[s] = "connecting"
    /\ Cardinality(checkedOut) < poolMax
    /\ IdleClients # {}
    /\ checkedOut' = checkedOut \cup {s}
    /\ client' = [client EXCEPT ![s] = Lowest(IdleClients)]
    /\ IssueRead(s)
    /\ UNCHANGED <<mode, rows, cursorPos, partialResults, idx, delivered, running,
                   readGot, closes, releases, outcome, failure, handlerErr,
                   execPromise, poolMax>>

\* await this.pool.connect() throws: catch (ex) { return reject(ex); }
ConnectRejected(s) ==
    /\ UNCHANGED writeVars
    /\ pc[s] = "connecting"
    /\ pc' = [pc EXCEPT ![s] = "rejected"]
    /\ outcome' = [outcome EXCEPT ![s] = "rejected"]
    /\ failure' = [failure EXCEPT ![s] = "connect"]
    /\ execPromise' = [execPromise EXCEPT ![s] = "fulfilled"]
    /\ UNCHANGED <<mode, rows, cursorPos, partialResults, idx, delivered, running,
                   readReq, readGot, closes, releases, handlerErr, poolMax, client, checkedOut>>

\* variant of EndOfResults: the cursor is not closed before the release
EndOfResults_noClose(s) ==
    /\ pc' = [pc EXCEPT ![s] = "closing"]
    /\ outcome' = [outcome EXCEPT ![s] = "resolved"]
    /\ closes' = closes
    /\ execPromise' = [execPromise EXCEPT ![s] = "fulfilled"]

\* partialResults.length === 0: resultsEnded = true; the loop ends; resolve();
\* cursor.close(cb) is issued.
EndOfResults(s) ==
    /\ pc' = [pc EXCEPT ![s] = "closing"]
    /\ outcome' = [outcome EXCEPT ![s] = "resolved"]
    /\ closes' = [closes EXCEPT ![s] = @ + 1]
    /\ execPromise' = [execPromise EXCEPT ![s] = "fulfilled"]

\* an exception leaves the async executor: its own promise rejects, which no
\* one observes (Node reports an unhandled rejection, and ends the process
\* or goes on, by version); neither resolve nor reject of the returned promise
\* is called and the statements after the loop are not reached.
ExecutorThrows(s, row) ==
    /\ pc' = [pc EXCEPT ![s] = "thrown"]
    /\ handlerErr' = [handlerErr EXCEPT ![s] = row]
    /\ execPromise' = [execPromise EXCEPT ![s] = "rejected"]

\* variant of CallEachAwait: the handlers of the whole batch are started at
\* once (Promise.all(partialResults.map(each))) instead of one after another
CallEachAwait_allAtOnce(s, batch, i) ==
    /\ partialResults' = [partialResults EXCEPT ![s] = batch]
    /\ idx' = [idx EXCEPT ![s] = Len(batch)]
    /\ delivered' = [delivered EXCEPT ![s] = @ \o batch]
    /\ running' = [running EXCEPT ![s] = @ \cup {batch[k] : k \in 1..Len(batch)}]
    /\ pc' = [pc EXCEPT ![s] = "awaitEach"]

\* findStream: each(row) is called and its promise awaited
CallEachAwait(s, batch, i) ==
    /\ partialResults' = [partialResults EXCEPT ![s] = batch]
    /\ idx' = [idx EXCEPT ![s] = i]
    /\ delivered' = [delivered EXCEPT ![s] = Append(@, batch[i])]
    /\ running' = [running EXCEPT ![s] = @ \cup {batch[i]}]
    /\ pc' = [pc EXCEPT ![s] = "awaitEach"]

\* findStreamSync: for (const row of partialResults) each(row), in one turn of
\* the event loop; failAt = 0 when no invocation throws, else the position of
\* the invocation that throws.
SyncBatch(s, batch, failAt) ==
    /\ running' = running
    /\ partialResults' = [partialResults EXCEPT ![s] = batch]
    /\ IF failAt = 0
       THEN /\ delivered' = [delivered EXCEPT ![s] = @ \o batch]
            /\ idx' = [idx EXCEPT ![s] = Len(batch)]
            /\ IssueRead(s)
            /\ UNCHANGED <<handlerErr, execPromise, outcome, closes>>
       ELSE /\ delivered' = [delivered EXCEPT ![s] = @ \o SubSeq(batch, 1, failAt)]
            /\ idx' = [idx EXCEPT ![s] = failAt]
            /\ ExecutorThrows(s, batch[failAt])
            /\ UNCHANGED <<readReq, outcome, closes>>

\* what the executor does with the batch a read produced (driver.ts 264-270)
HandleBatch(s, batch) ==
    IF Len(batch) > 0
    THEN IF mode[s] = "async"
         THEN /\ CallEachAwait(s, batch, 1)
              /\ UNCHANGED <<readReq, outcome, closes, handlerErr, execPromise>>
         ELSE \E failAt \in 0..Len(batch) : SyncBatch(s, batch, failAt)
    ELSE /\ EndOfResults(s)
         /\ UNCHANGED <<partialResults, idx, delivered, running, readReq, handlerErr>>

\* cursor.read callback without error: resolve(rows)
ReadRows(s) ==
    /\ UNCHANGED writeVars
    /\ pc[s] = "reading"
    /\ LET batch == CursorRows(cursorPos[s], readReq[s][Len(readReq[s])], rows[s]) IN
         /\ cursorPos' = [cursorPos EXCEPT ![s] = @ + Len(batch)]
         /\ readGot' = [readGot EXCEPT ![s] = Append(@, Len(batch))]
         /\ HandleBatch(s, batch)
    /\ UNCHANGED <<mode, rows, releases, failure, poolMax, client, checkedOut>>

\* variant of ReadError: the read error is passed on, if (err) return reject(err)
ReadError_propagated(s) ==
    /\ UNCHANGED writeVars
    /\ pc[s] = "reading"
    /\ readGot' = [readGot EXCEPT ![s] = Append(@, -1)]
    /\ pc' = [pc EXCEPT ![s] = "rejected"]
    /\ outcome' = [outcome EXCEPT ![s] = "rejected"]
    /\ failure' = [failure EXCEPT ![s] = "read"]
    /\ UNCHANGED <<mode, rows, cursorPos, partialResults, idx, delivered, running,
                   readReq, closes, releases, handlerErr, execPromise, poolMax, client,
                   checkedOut>>

\* cursor.read callback with err: return resolve([])
ReadError(s) ==
    /\ UNCHANGED writeVars
    /\ pc[s] = "reading"
    /\ readGot' = [readGot EXCEPT ![s] = Append(@, -1)]
    /\ HandleBatch(s, << >>)
    /\ UNCHANGED <<mode, rows, cursorPos, releases, failure, poolMax, client, checkedOut>>

\* variant of EachResolved: the loop over the batch stops one row early
EachResolved_offByOne(s) ==
    /\ UNCHANGED writeVars
    /\ pc[s] = "awaitEach"
    /\ LET settled == [running EXCEPT ![s] = @ \ {partialResults[s][idx[s]]}] IN
       IF idx[s] + 1 < Len(partialResults[s])
       THEN /\ partialResults' = partialResults
            /\ idx' = [idx EXCEPT ![s] = @ + 1]
            /\ delivered' = [delivered EXCEPT ![s] = Append(@, partialResults[s][idx[s] + 1])]
            /\ running' = [settled EXCEPT ![s] = @ \cup {partialResults[s][idx[s] + 1]}]
            /\ pc' = pc
            /\ UNCHANGED readReq
       ELSE /\ running' = settled
            /\ IssueRead(s)
            /\ UNCHANGED <<partialResults, idx, delivered>>
    /\ UNCHANGED <<mode, rows, cursorPos, readGot, closes, releases, outcome, failure,
                   handlerErr, execPromise, poolMax, client, checkedOut>>

\* the promise returned by the async handler fulfils: next row of the batch,
\* or back to the top of the while loop
EachResolved(s) ==
    /\ UNCHANGED writeVars
    /\ pc[s] = "awaitEach"
    /\ LET settled == [running EXCEPT ![s] = @ \ {partialResults[s][idx[s]]}] IN
       IF idx[s] < Len(partialResults[s])
       THEN /\ partialResults' = partialResults
            /\ idx' = [idx EXCEPT ![s] = @ + 1]
            /\ delivered' = [delivered EXCEPT ![s] = Append(@, partialResults[s][idx[s] + 1])]
            /\ running' = [settled EXCEPT ![s] = @ \cup {partialResults[s][idx[s] + 1]}]
            /\ pc' = pc
            /\ UNCHANGED readReq
       ELSE /\ running' = settled
            /\ IssueRead(s)
            /\ UNCHANGED <<partialResults, idx, delivered>>
    /\ UNCHANGED <<mode, rows, cursorPos, readGot, closes, releases, outcome, failure,
                   handlerErr, execPromise, poolMax, client, checkedOut>>

\* variant of EachRejected: the failure is caught and the loop goes on
EachRejected_swallowed(s) ==
    /\ UNCHANGED writeVars
    /\ pc[s] = "awaitEach"
    /\ handlerErr' = [handlerErr EXCEPT ![s] = partialResults[s][idx[s]]]
    /\ LET settled == [running EXCEPT ![s] = @ \ {partialResults[s][idx[s]]}] IN
       IF idx[s] < Len(partialResults[s])
       THEN /\ partialResults' = partialResults
            /\ idx' = [idx EXCEPT ![s] = @ + 1]
            /\ delivered' = [delivered EXCEPT ![s] = Append(@, partialResults[s][idx[s] + 1])]
            /\ running' = [settled EXCEPT ![s] = @ \cup {partialResults[s][idx[s] + 1]}]
            /\ pc' = pc
            /\ UNCHANGED readReq
       ELSE /\ running' = settled
            /\ IssueRead(s)
            /\ UNCHANGED <<partialResults, idx, delivered>>
    /\ UNCHANGED <<mode, rows, cursorPos, readGot, closes, releases, outcome, failure,
                   execPromise, poolMax, client, checkedOut>>

\* the async handler throws or its promise rejects: await each(...) throws
EachRejected(s) ==
    /\ UNCHANGED writeVars
    /\ pc[s] = "awaitEach"
    /\ running' = [running EXCEPT ![s] = @ \ {partialResults[s][idx[s]]}]
    /\ ExecutorThrows(s, partialResults[s][idx[s]])
    /\ UNCHANGED <<mode, rows, cursorPos, partialResults, idx, delivered, readReq,
                   readGot, closes, releases, outcome, failure, poolMax, client, checkedOut>>

\* callback of cursor.close: client.release()
CloseCallback(s) ==
    /\ UNCHANGED writeVars
    /\ pc[s] = "closing"
    /\ pc' = [pc EXCEPT ![s] = "done"]
    /\ releases' = [releases EXCEPT ![s] = @ + 1]
    /\ checkedOut' = checkedOut \ {s}
    /\ UNCHANGED <<mode, rows, cursorPos, partialResults, idx, delivered, running,
                   readReq, readGot, closes, outcome, failure, handlerErr,
                   execPromise, poolMax, client>>

\* ------------------------------------------------------ statement builders
TableName == "person"

Undefined == [t |-> "undefined"]
Num(n) == [t |-> "number", v |-> n]
UpdateOp(kind, n) == [t |-> "object", update |-> kind, value |-> Num(n)]

NoKey == [null |-> TRUE, name |-> << >>]
Key(id) == [null |-> FALSE, name |-> id]

\* row[k] of a row given as the list of its [k, v] entries in key order
RowGet(row, k) ==
    IF \E j \in 1..Len(row) : row[j].k = k
    THEN row[CHOOSE j \in 1..Len(row) : row[j].k = k].v
    ELSE Undefined

\* the entries insert keeps: all but a null / undefined primary key
InsertKept(row, key) ==
    SelectSeq(row, LAMBDA e : ~(~key.null /\ key.name = e.k /\ IsNullish(e.v)))

\* key && (row[key] === null || row[key] === undefined)
InsertReturns(row, key) == ~key.null /\ IsNullish(RowGet(row, key.name))

InsertSentence(table, row, key) ==
    LET kept == InsertKept(row, key) IN
    <<"INSERT INTO \"", table, "\"(">>
        \o Join([j \in 1..Len(kept) |-> Quoted(kept[j].k)], ",")
        \o <<") VALUES (">>
        \o Join([j \in 1..Len(kept) |-> <<"?">>], ",")
        \o <<")">>
        \o (IF InsertReturns(row, key)
            THEN <<" RETURNING \"">> \o toSQL(key.name) \o <<"\"">>
            ELSE << >>)

InsertValues(row, key) ==
    LET kept == InsertKept(row, key) IN
    [j \in 1..Len(kept) |-> toSQLCompatibleValue(kept[j].v)]

\* what insert hands to pool.query
InsertQuery(table, row, key) ==
    [sql |-> toPostgresTemplate(InsertSentence(table, row, key)),
     values |-> InsertValues(row, key)]

UpdateSentence(table, keyName, updated) ==
    <<"UPDATE \"", table, "\" SET ">>
        \o Join([j \in 1..Len(updated) |-> Quoted(updated[j].k) \o <<" = ", "?">>], ", ")
        \o <<" WHERE ">> \o Quoted(keyName) \o <<" = ", "?">>

UpdateQuery(table, keyName, keyValue, updated) ==
    [sql |-> toPostgresTemplate(UpdateSentence(table, keyName, updated)),
     values |-> [j \in 1..Len(updated) |-> toSQLCompatibleValue(updated[j].v)]
                    \o <<keyValue>>]

\* the SET item updateMany emits for one field
SetItem(e) ==
    IF e.v.t = "object" /\ e.v.update = "inc"
    THEN Quoted(e.k) \o <<" = ">> \o Quoted(e.k) \o <<" + ", "?">>
    ELSE Quoted(e.k) \o <<" = ", "?">>

\* the value updateMany binds for one field
SetValue(e) ==
    IF e.v.t = "object" /\ e.v.update \in {"set", "inc"}
    THEN toSQLCompatibleValue(e.v.value)
    ELSE toSQLCompatibleValue(e.v)

\* variant of UpdateManyQuery: the filter values are bound before the SET values
UpdateManyQuery_filterValuesFirst(table, filter, updated) ==
    LET cond1 == filterToSQL(filter) IN
    [sql |-> toPostgresTemplate(
                <<"UPDATE \"", table, "\" SET ">>
                    \o Join([j \in 1..Len(updated) |-> SetItem(updated[j])], ", ")
                    \o (IF Len(cond1.query) > 0
                        THEN <<" WHERE ">> \o cond1.query ELSE << >>)),
     values |-> (IF Len(cond1.query) > 0 THEN cond1.values ELSE << >>)
                    \o [j \in 1..Len(updated) |-> SetValue(updated[j])]]

UpdateManyQuery(table, filter, updated) ==
    LET cond1 == filterToSQL(filter) IN
    [sql |-> toPostgresTemplate(
                <<"UPDATE \"", table, "\" SET ">>
                    \o Join([j \in 1..Len(updated) |-> SetItem(updated[j])], ", ")
                    \o (IF Len(cond1.query) > 0
                        THEN <<" WHERE ">> \o cond1.query ELSE << >>)),
     values |-> [j \in 1..Len(updated) |-> SetValue(updated[j])]
                    \o (IF Len(cond1.query) > 0 THEN cond1.values ELSE << >>)]

\* ---- statements with a filter only
\* if (cond1.query.length > 0) { sentence += " WHERE " + cond1.query; ... }
WhereText(cond1) ==
    IF Len(cond1.query) > 0 THEN <<" WHERE ">> \o cond1.query ELSE << >>

WhereValues(cond1) == IF Len(cond1.query) > 0 THEN cond1.values ELSE << >>

NoProjection == [null |-> TRUE, keys |-> << >>]
Projection(keys) == [null |-> FALSE, keys |-> keys]

\* limit / skip are numbers or null
AtLeastZero(n) == n.t = "number" /\ n.v >= 0

generateSelectSentence(table, filter, sortBy, sortDir, skip, limit, projection) ==
    LET cond1 == filterToSQL(filter) IN
    [sql |-> toPostgresTemplate(
                <<"SELECT ">>
                    \o (IF projection.null THEN <<"*">>
                        ELSE Join([j \in 1..Len(projection.keys) |->
                                      Quoted(projection.keys[j])], ", "))
                    \o <<" FROM \"", table, "\"">>
                    \o WhereText(cond1)
                    \o (IF Len(sortBy) > 0
                        THEN <<" ORDER BY ">> \o Quoted(sortBy)
                                 \o <<" ", IF sortDir = "desc" THEN "DESC" ELSE "ASC">>
                        ELSE << >>)
                    \o (IF AtLeastZero(limit) THEN <<" LIMIT ", ToString(limit.v)>>
                        ELSE << >>)
                    \o (IF AtLeastZero(skip) THEN <<" OFFSET ", ToString(skip.v)>>
                        ELSE << >>)),
     values |-> WhereValues(cond1)]

CountQuery(table, filter) ==
    LET cond1 == filterToSQL(filter) IN
    [sql |-> toPostgresTemplate(
                <<"SELECT COUNT(*) AS \"count\" FROM \"", table, "\"">>
                    \o WhereText(cond1)),
     values |-> WhereValues(cond1)]

SumQuery(table, filter, field) ==
    LET cond1 == filterToSQL(filter) IN
    [sql |-> toPostgresTemplate(
                <<"SELECT SUM(">> \o Quoted(field) \o <<") AS ">> \o Quoted(field)
                    \o <<" FROM \"", table, "\"">> \o WhereText(cond1)),
     values |-> WhereValues(cond1)]

DeleteManyQuery(table, filter) ==
    LET cond1 == filterToSQL(filter) IN
    [sql |-> toPostgresTemplate(<<"DELETE FROM \"", table, "\"">> \o WhereText(cond1)),
     values |-> WhereValues(cond1)]

\* ---- results
\* normalizeSQLResults: every key of every row through toCamelCase
normalizeSQLResults(results) ==
    [r \in 1..Len(results) |->
        [j \in 1..Len(results[r]) |->
            [k |-> toCamelCase(results[r][j].k), v |-> results[r][j].v]]]

\* this.idConversion.parseResults
parseResults(results) ==
    IF conversion = "default" THEN normalizeSQLResults(results) ELSE results

DigitOf == [c \in {"0", "1", "2", "3", "4", "5", "6", "7", "8", "9"} |->
               CASE c = "0" -> 0 [] c = "1" -> 1 [] c = "2" -> 2 [] c = "3" -> 3
                 [] c = "4" -> 4 [] c = "5" -> 5 [] c = "6" -> 6 [] c = "7" -> 7
                 [] c = "8" -> 8 [] c = "9" -> 9]

RECURSIVE DigitsValue(_)
DigitsValue(chars) ==
    IF chars = << >> THEN 0
    ELSE 10 * DigitsValue(SubSeq(chars, 1, Len(chars) - 1)) + DigitOf[chars[Len(chars)]]

\* parseInt(val, 10) || 0 : the leading digits of the text of val, 0 for NaN
ParseIntOrZero(val) ==
    CASE val.t = "number" -> val.v
      [] val.t = "string" ->
            LET n == Len(val.s)
                lead == IF \A i \in 1..n : val.s[i] \in DOMAIN DigitOf THEN n
                        ELSE (CHOOSE i \in 1..n : /\ val.s[i] \notin DOMAIN DigitOf
                                                 /\ \A j \in 1..(i - 1) :
                                                       val.s[j] \in DOMAIN DigitOf) - 1
            IN  DigitsValue(SubSeq(val.s, 1, lead))
      [] OTHER -> 0

\* ----------------------------------------------------------- call inputs
FieldId == <<"i", "d">>
FieldN == <<"n">>
FieldAB == <<"a", "B">>

UpdateFields == {FieldN, FieldAB}
UpdateValues == {Num(1), NullValue, UpdateOp("set", 2), UpdateOp("inc", 2)}

\* update descriptors: up to MaxFields distinct fields, in any key order
Descriptors ==
    UNION {
        {u \in [1..n -> [k : UpdateFields, v : UpdateValues]] :
            \A a, b \in 1..n : a # b => u[a].k # u[b].k}
        : n \in 0..Min(MaxFields, Cardinality(UpdateFields))}

WriteFilters ==
    { [operation |-> "null"],
      [operation |-> "eq", key |-> FieldId, value |-> Num(1)],
      [operation |-> "and",
       children |-> << [operation |-> "in", key |-> FieldId, values |-> << >>],
                       [operation |-> "gt", key |-> FieldAB, value |-> Num(1)] >>] }

\* ---- filter trees
String(chars) == [t |-> "string", s |-> chars]

\* the value a comparison on key carries: it tells the key and the operation
FilterValue(key, op) ==
    Num((IF key = FieldN THEN 10 ELSE 20)
        + (CASE op = "eq" -> 1 [] op = "ne" -> 2 [] op = "gt" -> 3 [] op = "lt" -> 4
             [] op = "gte" -> 5 [] op = "lte" -> 6 [] op = "in1" -> 7 [] OTHER -> 8))

Compare(op, key) == [operation |-> op, key |-> key, value |-> FilterValue(key, op)]

RegexN == [operation |-> "regex", key |-> FieldN,
           regexp |-> [source |-> <<"a", "%">>, flags |-> << >>]]
RegexAB == [operation |-> "regex", key |-> FieldAB,
            regexp |-> [source |-> <<"^", "b">>, flags |-> <<"i">>]]

In0 == [operation |-> "in", key |-> FieldN, values |-> << >>]
In1 == [operation |-> "in", key |-> FieldN, values |-> <<FilterValue(FieldN, "in1")>>]
In2 == [operation |-> "in", key |-> FieldAB,
        values |-> <<FilterValue(FieldAB, "in1"), FilterValue(FieldAB, "in2")>>]

FilterLeaves ==
    { [operation |-> "null"],
      Compare("eq", FieldN), Compare("eq", FieldAB),
      Compare("ne", FieldN), Compare("ne", FieldAB),
      Compare("gt", FieldN), Compare("lt", FieldAB),
      Compare("gte", FieldN), Compare("lte", FieldAB),
      [operation |-> "eq", key |-> FieldN, value |-> NullValue],
      [operation |-> "ne", key |-> FieldAB, value |-> Undefined],
      [operation |-> "exists", key |-> FieldN, exists |-> TRUE],
      [operation |-> "exists", key |-> FieldAB, exists |-> FALSE],
      In0, In1, In2, RegexN, RegexAB }

\* and / or nodes over up to MaxChildren children taken from S, in any order
Junctions(S) ==
    UNION { {[operation |-> op, children |-> ch] : op \in {"and", "or"}, ch \in [1..n -> S]}
            : n \in 0..MaxChildren }

Negations(S) == {[operation |-> "not", child |-> c] : c \in S}

FilterLevel1 == FilterLeaves \cup Junctions(FilterLeaves) \cup Negations(FilterLeaves)

\* nodes that are nested further
FilterNested ==
    { [operation |-> "and", children |-> << >>],
      [operation |-> "or", children |-> <<In0, [operation |-> "null"]>>],
      [operation |-> "or", children |-> <<Compare("gt", FieldN), In2>>],
      [operation |-> "and", children |-> <<RegexAB, In0, Compare("ne", FieldN)>>],
      [operation |-> "not", child |-> In0],
      [operation |-> "not", child |-> Compare("lte", FieldAB)],
      In1, Compare("eq", FieldAB) }

FilterTrees ==
    FilterLevel1 \cup Negations(FilterLevel1) \cup Junctions(FilterNested)
        \cup Negations(Junctions(FilterNested))

InsertRows ==
    { << [k |-> FieldId, v |-> Num(1)], [k |-> FieldN, v |-> Num(1)] >>,
      << [k |-> FieldId, v |-> NullValue], [k |-> FieldN, v |-> Num(2)] >>,
      << [k |-> FieldAB, v |-> NullValue] >>,
      << [k |-> FieldN, v |-> Num(3)] >> }

BatchRows ==
    { << [k |-> FieldId, v |-> Num(1)], [k |-> FieldN, v |-> Num(1)] >>,
      << [k |-> FieldId, v |-> Num(2)], [k |-> FieldAB, v |-> NullValue] >> }

Batches == UNION {[1..n -> BatchRows] : n \in 0..MaxBatch}

\* --------------------------------------------------------- statement calls
\* the caller makes one call at a time
CanCall == call.ret # "pending"

NewCall(op, args, ret) ==
    [op |-> op, args |-> args, ret |-> ret, err |-> 0, val |-> Undefined, i |-> 0]

LastPending == Len(qres) > 0 /\ qres[Len(qres)] = "pending"

\* variant of Update: the check for an empty descriptor is missing
Update_noEmptyCheck(keyName, keyValue, updated) ==
    /\ CanCall
    /\ cbLog' = << >>
    /\ call' = NewCall("update", [updated |-> updated], "pending")
    /\ queries' = <<UpdateQuery(TableName, keyName, keyValue, updated)>>
    /\ qres' = <<"pending">>
    /\ UNCHANGED <<conversion, streamVars>>

\* update(table, keyName, keyValue, updated)
Update(keyName, keyValue, updated) ==
    /\ CanCall
    /\ cbLog' = << >>
    /\ IF Len(updated) = 0
       THEN /\ call' = NewCall("update", [updated |-> updated], "undefined")
            /\ queries' = << >>
            /\ qres' = << >>
       ELSE /\ call' = NewCall("update", [updated |-> updated], "pending")
            /\ queries' = <<UpdateQuery(TableName, keyName, keyValue, updated)>>
            /\ qres' = <<"pending">>
    /\ UNCHANGED <<conversion, streamVars>>

\* updateMany(table, filter, updated)
UpdateMany(filter, updated) ==
    /\ CanCall
    /\ cbLog' = << >>
    /\ IF Len(updated) = 0
       THEN /\ call' = NewCall("updateMany", [updated |-> updated], "undefined")
            /\ queries' = << >>
            /\ qres' = << >>
       ELSE /\ call' = NewCall("updateMany", [updated |-> updated], "pending")
            /\ queries' = <<UpdateManyQuery(TableName, filter, updated)>>
            /\ qres' = <<"pending">>
    /\ UNCHANGED <<conversion, streamVars>>

\* pool.query callback of update / updateMany without error: resolve(...)
UpdateCallbackOk(rowCount) ==
    /\ call.op \in {"update", "updateMany"}
    /\ call.ret = "pending"
    /\ LastPending
    /\ qres' = [qres EXCEPT ![Len(qres)] = "ok"]
    /\ call' = [call EXCEPT !.ret = "resolved",
                            !.val = IF call.op = "updateMany" THEN Num(rowCount)
                                    ELSE Undefined]
    /\ UNCHANGED <<conversion, queries, cbLog, streamVars>>

\* pool.query callback of update / updateMany with error: reject(error)
UpdateCallbackError ==
    /\ call.op \in {"update", "updateMany"}
    /\ call.ret = "pending"
    /\ LastPending
    /\ qres' = [qres EXCEPT ![Len(qres)] = "error"]
    /\ call' = [call EXCEPT !.ret = "rejected", !.err = Len(qres)]
    /\ UNCHANGED <<conversion, queries, cbLog, streamVars>>

\* insert(table, row, key, callback)
Insert(row, key, hasCallback) ==
    /\ CanCall
    /\ cbLog' = << >>
    /\ call' = NewCall("insert",
                       [row |-> row, key |-> key, hasCallback |-> hasCallback],
                       "pending")
    /\ queries' = <<InsertQuery(TableName, row, key)>>
    /\ qres' = <<"pending">>
    /\ UNCHANGED <<conversion, streamVars>>

\* batchInsert(table, rows): the first insert is issued, or nothing for no rows
BatchInsert(rowList) ==
    /\ CanCall
    /\ cbLog' = << >>
    /\ IF Len(rowList) = 0
       THEN /\ call' = NewCall("batchInsert", [rows |-> rowList], "resolved")
            /\ queries' = << >>
            /\ qres' = << >>
       ELSE /\ call' = [NewCall("batchInsert", [rows |-> rowList], "pending")
                           EXCEPT !.i = 1]
            /\ queries' = <<InsertQuery(TableName, rowList[1], NoKey)>>
            /\ qres' = <<"pending">>
    /\ UNCHANGED <<conversion, streamVars>>

\* variant of InsertCallbackError: batchInsert catches the error of a row and
\* goes on with the next row
InsertCallbackError_batchGoesOn ==
    /\ call.op \in {"insert", "batchInsert"}
    /\ call.ret = "pending"
    /\ LastPending
    /\ IF call.op = "batchInsert" /\ call.i < Len(call.args.rows)
       THEN /\ call' = [call EXCEPT !.i = @ + 1]
            /\ queries' = Append(queries,
                                 InsertQuery(TableName, call.args.rows[call.i + 1], NoKey))
            /\ qres' = Append([qres EXCEPT ![Len(qres)] = "error"], "pending")
       ELSE /\ call' = [call EXCEPT !.ret = "rejected", !.err = Len(qres)]
            /\ qres' = [qres EXCEPT ![Len(qres)] = "error"]
            /\ UNCHANGED queries
    /\ UNCHANGED <<conversion, cbLog, streamVars>>

\* pool.query callback of insert with error: reject(error); in batchInsert the
\* await throws and the error leaves the loop
InsertCallbackError ==
    /\ call.op \in {"insert", "batchInsert"}
    /\ call.ret = "pending"
    /\ LastPending
    /\ qres' = [qres EXCEPT ![Len(qres)] = "error"]
    /\ call' = [call EXCEPT !.ret = "rejected", !.err = Len(qres)]
    /\ UNCHANGED <<conversion, queries, cbLog, streamVars>>

\* pool.query callback of insert without error.  A statement with RETURNING
\* yields one row holding the generated key.  In batchInsert the awaited
\* insert resolves and the loop issues the insert of the next row, if any.
InsertCallbackOk(generated) ==
    /\ call.op \in {"insert", "batchInsert"}
    /\ call.ret = "pending"
    /\ LastPending
    /\ CASE call.op = "insert" /\ ~InsertReturns(call.args.row, call.args.key) ->
               /\ call' = [call EXCEPT !.ret = "resolved"]
               /\ qres' = [qres EXCEPT ![Len(qres)] = "ok"]
               /\ UNCHANGED <<queries, cbLog>>
         [] call.op = "insert" /\ InsertReturns(call.args.row, call.args.key)
                              /\ call.args.hasCallback ->
               /\ cbLog' = Append(cbLog, Num(generated))
               /\ call' = [call EXCEPT !.ret = "resolved"]
               /\ qres' = [qres EXCEPT ![Len(qres)] = "ok"]
               /\ UNCHANGED queries
         [] call.op = "insert" /\ InsertReturns(call.args.row, call.args.key)
                              /\ ~call.args.hasCallback ->
               \* callback(...) with callback undefined throws inside the
               \* pool.query callback: resolve() is not reached
               /\ call' = [call EXCEPT !.err = -1]
               /\ qres' = [qres EXCEPT ![Len(qres)] = "ok"]
               /\ UNCHANGED <<queries, cbLog>>
         [] call.op = "batchInsert" /\ call.i < Len(call.args.rows) ->
               /\ call' = [call EXCEPT !.i = @ + 1]
               /\ queries' = Append(queries,
                                InsertQuery(TableName, call.args.rows[call.i + 1], NoKey))
               /\ qres' = Append([qres EXCEPT ![Len(qres)] = "ok"], "pending")
               /\ UNCHANGED cbLog
         [] call.op = "batchInsert" /\ call.i >= Len(call.args.rows) ->
               /\ call' = [call EXCEPT !.ret = "resolved"]
               /\ qres' = [qres EXCEPT ![Len(qres)] = "ok"]
               /\ UNCHANGED <<queries, cbLog>>
    /\ UNCHANGED <<conversion, streamVars>>

\* find(table, filter, sortBy, sortDir, skip, limit, projection, options)
Find(filter, sortBy, sortDir, skip, limit, projection) ==
    /\ CanCall
    /\ cbLog' = << >>
    /\ call' = NewCall("find", [filter |-> filter], "pending")
    /\ queries' = <<generateSelectSentence(TableName, filter, sortBy, sortDir,
                                           skip, limit, projection)>>
    /\ qres' = <<"pending">>
    /\ UNCHANGED <<conversion, streamVars>>

\* count(table, filter, options)
Count(filter) ==
    /\ CanCall
    /\ cbLog' = << >>
    /\ call' = NewCall("count", [filter |-> filter], "pending")
    /\ queries' = <<CountQuery(TableName, filter)>>
    /\ qres' = <<"pending">>
    /\ UNCHANGED <<conversion, streamVars>>

\* sum(table, filter, id, field)
Sum(filter, field) ==
    /\ CanCall
    /\ cbLog' = << >>
    /\ call' = NewCall("sum", [filter |-> filter, field |-> field], "pending")
    /\ queries' = <<SumQuery(TableName, filter, field)>>
    /\ qres' = <<"pending">>
    /\ UNCHANGED <<conversion, streamVars>>

\* deleteMany(table, filter)
DeleteMany(filter) ==
    /\ CanCall
    /\ cbLog' = << >>
    /\ call' = NewCall("deleteMany", [filter |-> filter], "pending")
    /\ queries' = <<DeleteManyQuery(TableName, filter)>>
    /\ qres' = <<"pending">>
    /\ UNCHANGED <<conversion, streamVars>>

\* pool.query callback of find / count / sum / deleteMany with error
QueryCallbackError ==
    /\ call.op \in {"find", "count", "sum", "deleteMany"}
    /\ call.ret = "pending"
    /\ LastPending
    /\ qres' = [qres EXCEPT ![Len(qres)] = "error"]
    /\ call' = [call EXCEPT !.ret = "rejected", !.err = Len(qres)]
    /\ UNCHANGED <<conversion, queries, cbLog, streamVars>>

\* pool.query callback of find / count / sum / deleteMany without error;
\* results is [rows |-> the rows, each a list of [k, v] entries, rowCount |-> n]
QueryCallbackOk(results) ==
    /\ call.op \in {"find", "count", "sum", "deleteMany"}
    /\ call.ret = "pending"
    /\ LastPending
    /\ qres' = [qres EXCEPT ![Len(qres)] = "ok"]
    /\ call' = [call EXCEPT
          !.ret = "resolved",
          !.val =
             CASE call.op = "find" -> [t |-> "rows", rows |-> parseResults(results.rows)]
               [] call.op = "count" ->
                     IF Len(results.rows) > 0
                     THEN Num(ParseIntOrZero(RowGet(results.rows[1], <<"c", "o", "u", "n", "t">>)))
                     ELSE Num(0)
               [] call.op = "sum" ->
                     LET normalized == parseResults(results.rows) IN
                     IF Len(normalized) > 0
                     THEN Num(ParseIntOrZero(RowGet(normalized[1], call.args.field)))
                     ELSE Num(0)
               [] call.op = "deleteMany" -> Num(results.rowCount)]
    /\ UNCHANGED <<conversion, queries, cbLog, streamVars>>

\* ------------------------------------------------------------ specification
\* no statement call has been made
WriteIdle ==
    /\ call = [op |-> "none", ret |-> "none"]
    /\ queries = << >>
    /\ qres = << >>
    /\ cbLog = << >>

StreamIdle(active) ==
    /\ pc = [s \in Streams |-> IF s \in active THEN "idle" ELSE "off"]
    /\ mode = [s \in Streams |-> "none"]
    /\ cursorPos = [s \in Streams |-> 0]
    /\ partialResults = [s \in Streams |-> << >>]
    /\ idx = [s \in Streams |-> 0]
    /\ delivered = [s \in Streams |-> << >>]
    /\ running = [s \in Streams |-> {}]
    /\ readReq = [s \in Streams |-> << >>]
    /\ readGot = [s \in Streams |-> << >>]
    /\ closes = [s \in Streams |-> 0]
    /\ releases = [s \in Streams |-> 0]
    /\ outcome = [s \in Streams |-> "none"]
    /\ failure = [s \in Streams |-> "none"]
    /\ handlerErr = [s \in Streams |-> 0]
    /\ execPromise = [s \in Streams |-> "none"]
    /\ client = [s \in Streams |-> 0]
    /\ checkedOut = {}

\* one stream call against a result set of any size up to MaxRows
InitStream ==
    /\ StreamIdle({1})
    /\ \E n \in 0..MaxRows : rows = [s \in Streams |-> IF s = 1 THEN n ELSE 0]
    /\ poolMax = DefaultConnections
    /\ conversion = "default"
    /\ WriteIdle

NextStream ==
    \E s \in Streams :
        \/ FindStream(s)
        \/ FindStreamSync(s)
        \/ ConnectResolved(s)
        \/ ConnectRejected(s)
        \/ ReadRows(s)
        \/ ReadError(s)
        \/ EachResolved(s)
        \/ EachRejected(s)
        \/ CloseCallback(s)

SpecStream == InitStream /\ [][NextStream]_vars

\* every stream call may be made, in any interleaving, against an empty or a
\* small result set each, and a pool of config.connections clients (1, 2, or
\* unset: the default)
InitConc ==
    /\ StreamIdle(Streams)
    /\ rows \in [Streams -> {0, MaxConcRows}]
    /\ poolMax \in {1, 2, DefaultConnections}
    /\ conversion = "default"
    /\ WriteIdle

SpecConc == InitConc /\ [][NextStream]_vars

\* statement calls, one at a time, under either identifier conversion
InitWrite ==
    /\ StreamIdle({})
    /\ rows = [s \in Streams |-> 0]
    /\ poolMax = DefaultConnections
    /\ conversion \in {"default", "disabled"}
    /\ WriteIdle

NextWrite ==
    \/ \E u \in Descriptors : Update(FieldId, Num(1), u)
    \/ \E f \in WriteFilters, u \in Descriptors : UpdateMany(f, u)
    \/ \E n \in 0..1 : UpdateCallbackOk(n)
    \/ UpdateCallbackError
    \/ \E r \in InsertRows, key \in {NoKey, Key(FieldId)}, cb \in BOOLEAN :
           Insert(r, key, cb)
    \/ \E b \in Batches : BatchInsert(b)
    \/ \E g \in {7} : InsertCallbackOk(g)
    \/ InsertCallbackError

SpecWrite == InitWrite /\ [][NextWrite]_vars

\* ------------------------------------------------------ stream: vocabulary
Last(q) == q[Len(q)]

\* the executor has nothing left to run
Ended(s) == pc[s] \in {"done", "rejected", "thrown"}

HandlerFailed(s) == handlerErr[s] # 0

ReadFailed(s) == \E i \in 1..Len(readGot[s]) : readGot[s][i] = -1

CeilDiv(a, b) == (a + b - 1) \div b

\* ---------------------------------------------------------------- claims

\* C1 (as stated): when the per-row handler raised an error after the
\* connection was acquired, the call ends with the cursor closed exactly once
\* and the connection released exactly once, never with the connection still
\* checked out.
C1_HandlerErrorStillTearsDown ==
    \A s \in Streams :
        (Ended(s) /\ HandlerFailed(s)) =>
            (closes[s] = 1 /\ releases[s] = 1 /\ s \notin checkedOut)

\* C2: the cursor is closed at most once and the connection released at most
\* once; the close is issued when the loop ends, the release only after the
\* close was issued; a finished call has exactly one close and one release;
\* no cursor read is issued once the close has been issued.
C2_ExhaustionTeardown ==
    [][\A s \in Streams :
          /\ closes'[s] <= 1
          /\ releases'[s] <= closes'[s]
          /\ (releases'[s] # releases[s] => closes[s] = 1)
          /\ (outcome'[s] = "resolved" => closes'[s] = 1)
          /\ (pc'[s] = "done" => (closes'[s] = 1 /\ releases'[s] = 1 /\ s \notin checkedOut'))
          /\ (closes[s] > 0 => (readReq'[s] = readReq[s] /\ pc'[s] # "reading"))
      ]_vars

C2_Witness ==
    \E s \in Streams :
        /\ pc[s] = "done" /\ ~HandlerFailed(s) /\ ~ReadFailed(s)
        /\ Last(readGot[s]) = 0 /\ Len(delivered[s]) > CURSOR_READ_AMOUNT
        /\ closes[s] = 1 /\ releases[s] = 1

\* C3 (as stated): when a per-row handler failed, the promise of the stream
\* call is rejected with the handler's error.
C3_HandlerErrorObserved ==
    \A s \in Streams :
        (Ended(s) /\ HandlerFailed(s)) =>
            (outcome[s] = "rejected" /\ failure[s] = "handler")

\* C4 (as stated): a call that resolved and whose handler never failed has
\* invoked the handler exactly once per row of the result set, in row order.
C4_AllRowsDelivered_AsStated ==
    \A s \in Streams :
        (outcome[s] = "resolved" /\ ~HandlerFailed(s)) =>
            delivered[s] = RowRange(0, rows[s])

\* C4 (amended): the rows handed to the handler are always a prefix of the
\* result set in row order (none skipped, none twice); when the call resolved,
\* no handler failed and no cursor read failed, that prefix is the whole
\* result set.
C4_AllRowsDelivered ==
    \A s \in Streams :
        /\ Len(delivered[s]) <= rows[s]
        /\ delivered[s] = RowRange(0, Len(delivered[s]))
        /\ (outcome[s] = "resolved" /\ ~HandlerFailed(s) /\ ~ReadFailed(s)) =>
               delivered[s] = RowRange(0, rows[s])

C4_Witness ==
    \E s \in Streams :
        /\ outcome[s] = "resolved" /\ ~HandlerFailed(s) /\ ~ReadFailed(s)
        /\ rows[s] = 2 * CURSOR_READ_AMOUNT + 50
        /\ Len(delivered[s]) = rows[s]

\* C5 (as stated): a call that ran to exhaustion without a failing read or
\* handler issued exactly ceil(N / CURSOR_READ_AMOUNT) batch reads.
C5_ReadCount_AsStated ==
    \A s \in Streams :
        (outcome[s] = "resolved" /\ ~HandlerFailed(s) /\ ~ReadFailed(s)) =>
            Len(readReq[s]) = CeilDiv(rows[s], CURSOR_READ_AMOUNT)

\* C5 (amended): every read requests CURSOR_READ_AMOUNT rows; a call that ran
\* to exhaustion without a failing read or handler issued exactly
\* ceil(N / CURSOR_READ_AMOUNT) + 1 reads: the first ceil(N / CURSOR_READ_AMOUNT)
\* return the rows in full batches (the last of them the remainder), and one
\* more read returns no rows and ends the loop.
C5_ReadCount ==
    \A s \in Streams :
        /\ \A i \in 1..Len(readReq[s]) : readReq[s][i] = CURSOR_READ_AMOUNT
        /\ (outcome[s] = "resolved" /\ ~HandlerFailed(s) /\ ~ReadFailed(s)) =>
              /\ Len(readReq[s]) = CeilDiv(rows[s], CURSOR_READ_AMOUNT) + 1
              /\ Len(readGot[s]) = Len(readReq[s])
              /\ \A i \in 1..Len(readGot[s]) :
                    readGot[s][i] =
                        IF i = Len(readGot[s]) THEN 0
                        ELSE Min(CURSOR_READ_AMOUNT,
                                 rows[s] - (i - 1) * CURSOR_READ_AMOUNT)

C5_Witness ==
    \E s \in Streams :
        /\ pc[s] = "done" /\ rows[s] = 250
        /\ readReq[s] = <<100, 100, 100, 100>>
        /\ readGot[s] = <<100, 100, 50, 0>>

\* C6: in findStream at most one handler invocation is in progress, it is the
\* one of the row delivered last, and no batch read is in flight while a
\* handler is in progress.
C6_SequentialHandling ==
    \A s \in Streams :
        mode[s] = "async" =>
            /\ Cardinality(running[s]) + (IF pc[s] = "reading" THEN 1 ELSE 0) <= 1
            /\ (running[s] # {} => running[s] = {Last(delivered[s])})
            /\ (pc[s] = "awaitEach" <=> running[s] # {})

C6_Witness ==
    \E s \in Streams :
        /\ mode[s] = "async" /\ pc[s] = "awaitEach"
        /\ Len(delivered[s]) = CURSOR_READ_AMOUNT + 2
        /\ running[s] = {CURSOR_READ_AMOUNT + 2}

\* C7: once a handler has failed, no further batch read is issued and the
\* handler is invoked for no further row; the failing invocation is the last
\* one of the call.
C7_StopAfterHandlerFailure ==
    [][\A s \in Streams :
          /\ HandlerFailed(s) =>
                (readReq'[s] = readReq[s] /\ delivered'[s] = delivered[s]
                 /\ pc'[s] # "reading")
          /\ (~HandlerFailed(s) /\ handlerErr'[s] # 0) =>
                /\ readReq'[s] = readReq[s]
                /\ pc'[s] # "reading"
                /\ delivered'[s] # << >>
                /\ Last(delivered'[s]) = handlerErr'[s]
      ]_vars

C7_Witness ==
    \E s \in Streams :
        /\ HandlerFailed(s)
        /\ handlerErr[s] < cursorPos[s]
        /\ Last(delivered[s]) = handlerErr[s]

\* C8: after a cursor read error no further read is issued, the call is
\* resolved (not rejected), the rows delivered before the error are exactly
\* the rows read before it, the cursor is closed and, when the call has
\* finished, the connection released.
C8_ReadErrorIsExhaustion ==
    \A s \in Streams :
        ReadFailed(s) =>
            /\ Last(readGot[s]) = -1
            /\ Len(readReq[s]) = Len(readGot[s])
            /\ outcome[s] = "resolved"
            /\ delivered[s] = RowRange(0, cursorPos[s])
            /\ closes[s] = 1
            /\ pc[s] \in {"closing", "done"}
            /\ (pc[s] = "done" => releases[s] = 1)

C8_Witness ==
    \E s \in Streams :
        /\ ReadFailed(s) /\ pc[s] = "done"
        /\ Len(delivered[s]) = CURSOR_READ_AMOUNT
        /\ rows[s] > CURSOR_READ_AMOUNT
        /\ releases[s] = 1

\* C9: update and updateMany called with an empty update descriptor hand no
\* statement to the pool and return at once without an error (the call
\* returns undefined, neither throwing nor yielding a rejected promise).
C9_EmptyUpdateNoStatement ==
    (call.op \in {"update", "updateMany"} /\ Len(call.args.updated) = 0) =>
        /\ queries = << >>
        /\ qres = << >>
        /\ call.ret = "undefined"
        /\ call.err = 0

C9_Witness ==
    /\ call.op = "updateMany"
    /\ call.args.updated = << >>
    /\ call.ret = "undefined"
    /\ queries = << >>

\* C10: batchInsert issues one INSERT per row in list order, the insert of a
\* row only after the inserts of all rows before it completed without error;
\* when the insert of the Nth row fails, batchInsert is rejected with that
\* error, N statements have been issued and none for a later row, and the
\* N - 1 inserts before it stay executed (no further statement follows them).
C10_BatchInsertSequential ==
    call.op = "batchInsert" =>
        LET rs == call.args.rows
            n == Len(queries)
        IN  /\ n = call.i
            /\ n <= Len(rs)
            /\ Len(qres) = n
            /\ \A j \in 1..n : queries[j] = InsertQuery(TableName, rs[j], NoKey)
            /\ \A j \in 1..(n - 1) : qres[j] = "ok"
            /\ call.ret \in {"pending", "resolved", "rejected"}
            /\ call.ret = "pending" => (n >= 1 /\ qres[n] = "pending")
            /\ call.ret = "rejected" => (n >= 1 /\ qres[n] = "error" /\ call.err = n)
            /\ call.ret = "resolved" => (n = Len(rs) /\ \A j \in 1..n : qres[j] = "ok")

C10_Witness ==
    /\ call.op = "batchInsert"
    /\ Len(call.args.rows) = 3
    /\ call.ret = "rejected"
    /\ call.err = 2
    /\ qres = <<"ok", "error">>
    /\ Len(queries) = 2


\* ---- every statement builder, with values that tell their place
KeyValue == Num(9)

StatementFilters ==
    { [operation |-> "null"],
      Compare("eq", FieldN),
      RegexN,
      [operation |-> "and", children |-> <<In0, Compare("gt", FieldN)>>],
      [operation |-> "or", children |-> <<Compare("lte", FieldAB), In2>>],
      [operation |-> "not",
       child |-> [operation |-> "and",
                  children |-> <<RegexAB, [operation |-> "exists", key |-> FieldN,
                                           exists |-> TRUE],
                                 Compare("ne", FieldN)>>]] }

StatementRows ==
    { << >>,
      << [k |-> FieldN, v |-> Num(1)], [k |-> FieldId, v |-> NullValue] >>,
      << [k |-> FieldId, v |-> Num(5)], [k |-> FieldAB, v |-> NullValue],
         [k |-> FieldN, v |-> UpdateOp("other", 3)] >> }

\* rows the database may answer the statement of the pending call with
ResultsOf(c) ==
    CASE c.op = "find" ->
            {[rows |-> r, rowCount |-> Len(r)] :
                r \in {<< >>, << << [k |-> <<"a", "_", "b">>, v |-> Num(1)],
                                    [k |-> <<"n">>, v |-> NullValue] >> >>}}
      [] c.op = "count" ->
            {[rows |-> << << [k |-> <<"c", "o", "u", "n", "t">>, v |-> String(<<"1", "2">>)] >> >>,
              rowCount |-> 1]}
      [] c.op = "sum" ->
            {[rows |-> << << [k |-> toSQL(c.args.field), v |-> v] >> >>, rowCount |-> 1] :
                v \in {String(<<"7">>), NullValue}}
      [] c.op = "deleteMany" -> {[rows |-> << >>, rowCount |-> n] : n \in 0..2}
      [] OTHER -> {}

\* sortBy, sortDir, skip, limit and projection of a find
FindOptions ==
    { [sortBy |-> << >>, sortDir |-> "asc", skip |-> NullValue, limit |-> NullValue,
       projection |-> NoProjection],
      [sortBy |-> << >>, sortDir |-> "desc", skip |-> Num(-1), limit |-> Num(-1),
       projection |-> Projection(<< >>)],
      [sortBy |-> FieldAB, sortDir |-> "asc", skip |-> Num(0), limit |-> Num(5),
       projection |-> Projection(<<FieldAB, FieldN>>)],
      [sortBy |-> FieldAB, sortDir |-> "desc", skip |-> NullValue, limit |-> Num(0),
       projection |-> NoProjection],
      [sortBy |-> FieldN, sortDir |-> "desc", skip |-> Num(3), limit |-> Num(-1),
       projection |-> Projection(<<FieldN>>)] }

\* filters given to updateMany
UpdateManyFilters ==
    {f \in StatementFilters : f.operation \in {"null", "or", "not"}}

NextStatement ==
    \/ \E f \in StatementFilters, o \in FindOptions :
            Find(f, o.sortBy, o.sortDir, o.skip, o.limit, o.projection)
    \/ \E f \in StatementFilters : Count(f)
    \/ \E f \in StatementFilters, field \in {FieldN, FieldAB} : Sum(f, field)
    \/ \E f \in StatementFilters : DeleteMany(f)
    \/ \E r \in ResultsOf(call) : QueryCallbackOk(r)
    \/ QueryCallbackError
    \/ \E u \in Descriptors : Update(FieldId, KeyValue, u)
    \/ \E f \in UpdateManyFilters, u \in Descriptors : UpdateMany(f, u)
    \/ \E n \in 0..1 : UpdateCallbackOk(n)
    \/ UpdateCallbackError
    \/ \E row \in StatementRows, key \in {NoKey, Key(FieldId)}, cb \in BOOLEAN :
            Insert(row, key, cb)
    \/ \E g \in {7} : InsertCallbackOk(g)
    \/ InsertCallbackError

SpecStatement == InitWrite /\ [][NextStatement]_vars

\* ---------------------------------------------------------------------------
\* filterToSQL as a call of its own
CallFilterToSQL ==
    /\ call.op = "filterToSQL" /\ call.ret = "pending"
    /\ call' = [call EXCEPT !.ret = "returned", !.val = filterToSQL(call.args.filter)]
    /\ UNCHANGED <<conversion, queries, qres, cbLog, streamVars>>

InitFilter ==
    /\ StreamIdle({})
    /\ rows = [s \in Streams |-> 0]
    /\ poolMax = DefaultConnections
    /\ conversion \in {"default", "disabled"}
    /\ queries = << >> /\ qres = << >> /\ cbLog = << >>
    /\ \E f \in FilterTrees : call = NewCall("filterToSQL", [filter |-> f], "pending")

NextFilter == CallFilterToSQL

SpecFilter == InitFilter /\ [][NextFilter]_vars

\* ---- regex terms over every short pattern
PatternChars == {"a", "%", "_", "\\", "^", "$"}

\* sources a RegExp can have: no backslash is left without a character after it
RECURSIVE EndsInEscape(_, _)
EndsInEscape(source, nextEscape) ==
    IF source = << >> THEN nextEscape
    ELSE EndsInEscape(Tail(source), Head(source) = "\\" /\ ~nextEscape)

RegexSources ==
    {src \in UNION {[1..n -> PatternChars] : n \in 0..MaxPattern} :
        ~EndsInEscape(src, FALSE)}

RegexTerms ==
    {[operation |-> "regex", key |-> FieldN, regexp |-> [source |-> src, flags |-> fl]] :
        src \in RegexSources, fl \in {<< >>, <<"i">>}}

InitRegex ==
    /\ StreamIdle({})
    /\ rows = [s \in Streams |-> 0]
    /\ poolMax = DefaultConnections
    /\ conversion \in {"default", "disabled"}
    /\ queries = << >> /\ qres = << >> /\ cbLog = << >>
    /\ \E f \in RegexTerms : call = NewCall("filterToSQL", [filter |-> f], "pending")

SpecRegex == InitRegex /\ [][NextFilter]_vars

\* ---- the identifier converters as calls of their own
IdentChars == {"a", "B", "1", "_"}

Identifiers == UNION {[1..n -> IdentChars] : n \in 0..MaxIdent}

\* toSnakeCase(id), toCamelCase(id) and both round trips, as a caller sees them
CallConverters ==
    /\ call.op = "convert" /\ call.ret = "pending"
    /\ call' = [call EXCEPT
          !.ret = "returned",
          !.val = [snake |-> toSnakeCase(call.args.id),
                   camel |-> toCamelCase(call.args.id),
                   camelOfSnake |-> toCamelCase(toSnakeCase(call.args.id)),
                   snakeOfCamel |-> toSnakeCase(toCamelCase(call.args.id))]]
    /\ UNCHANGED <<conversion, queries, qres, cbLog, streamVars>>

InitIdent ==
    /\ StreamIdle({})
    /\ rows = [s \in Streams |-> 0]
    /\ poolMax = DefaultConnections
    /\ conversion = "default"
    /\ queries = << >> /\ qres = << >> /\ cbLog = << >>
    /\ \E id \in Identifiers : call = NewCall("convert", [id |-> id], "pending")

NextIdent == CallConverters

SpecIdent == InitIdent /\ [][NextIdent]_vars

\* ---------------------------------------------------------------------------
\* C11  Concurrent findStream / findStreamSync calls: each holds a pool client
\* of its own (no client is held by two calls), no more calls hold a client
\* than the pool has clients, a handler is handed only rows that its own
\* cursor has read, and a step of one call changes nothing of another call's
\* cursor, reads, close, release or client.

\* calls whose own state (cursor, reads, close, release, client) a step changes
Touched ==
    {t \in Streams :
        \/ pc'[t] # pc[t]
        \/ cursorPos'[t] # cursorPos[t]
        \/ partialResults'[t] # partialResults[t]
        \/ idx'[t] # idx[t]
        \/ delivered'[t] # delivered[t]
        \/ running'[t] # running[t]
        \/ readReq'[t] # readReq[t]
        \/ readGot'[t] # readGot[t]
        \/ closes'[t] # closes[t]
        \/ releases'[t] # releases[t]
        \/ outcome'[t] # outcome[t]
        \/ client'[t] # client[t]
        \/ (t \in checkedOut') # (t \in checkedOut)}

OwnClientAndCursor ==
    /\ Cardinality(checkedOut) <= poolMax
    /\ \A s \in checkedOut : client[s] \in 1..poolMax
    /\ \A s, t \in checkedOut : s # t => client[s] # client[t]
    /\ \A s \in Streams :
          /\ closes[s] <= 1 /\ releases[s] <= closes[s]
          /\ \A i \in 1..Len(delivered[s]) : delivered[s][i] \in 1..cursorPos[s]
          /\ cursorPos[s] <= rows[s]

\* C11: every call holding a client holds one of its own, the holders never
\* outnumber the pool, a handler gets only rows its own cursor read, and no
\* step changes the cursor, reads, close, release or client of two calls.
C11_StreamsIsolated ==
    /\ []OwnClientAndCursor
    /\ [][Cardinality(Touched) <= 1]_vars

\* two calls hold clients at once and both handlers have been handed rows,
\* of result sets of different sizes
C11_Witness ==
    \E s, t \in Streams :
        /\ s # t /\ {s, t} \subseteq checkedOut
        /\ rows[s] # rows[t]
        /\ Len(delivered[s]) = rows[s] /\ Len(delivered[t]) > 0

\* the pool is at its limit: one call waits for a client that another holds
C11_AtLimit ==
    \E s, t \in Streams :
        /\ Cardinality(checkedOut) = poolMax /\ s \in checkedOut
        /\ pc[t] = "connecting"

\* ---------------------------------------------------------------------------
\* C12  For every filter tree, the fragment filterToSQL returns has exactly as
\* many ? placeholders as the returned list has values, and the i-th ? from
\* the left is the slot of the i-th value: the value stands behind the column
\* and the operator of the term that carries it.

Placeholders(q) == {p \in 1..Len(q) : q[p] = "?"}

\* the opening quote of the column name that stands before the placeholder at p
OpenQuote(q, p) ==
    CHOOSE r \in 1..(p - 3) : q[r] = "\"" /\ \A x \in (r + 1)..(p - 3) : q[x] # "\""

\* the value the term written around the placeholder at p carries
SlotValue(q, p) ==
    LET op == q[p - 1]
        r == OpenQuote(q, p)
        key == IF SubSeq(q, r + 1, p - 3) = toSQL(FieldN) THEN FieldN ELSE FieldAB
    IN  CASE op = " = " /\ r > 1 /\ q[r - 1] = "(" ->
                FilterValue(key, IF r > 2 /\ q[r - 2] = " OR " THEN "in2" ELSE "in1")
          [] op = " = " /\ ~(r > 1 /\ q[r - 1] = "(") -> FilterValue(key, "eq")
          [] op = " != " -> FilterValue(key, "ne")
          [] op = " > " -> FilterValue(key, "gt")
          [] op = " < " -> FilterValue(key, "lt")
          [] op = " >= " -> FilterValue(key, "gte")
          [] op = " <= " -> FilterValue(key, "lte")
          [] op = " LIKE " /\ key = FieldN -> String(<<"%", "a", "\\", "%", "%">>)
          [] op = ") LIKE UPPER(" /\ key = FieldAB -> String(<<"b", "%">>)
          [] OTHER -> Undefined

FilterReturned == call.op = "filterToSQL" /\ call.ret = "returned"

\* C12: a compiled fragment has as many ? as values, and the i-th ? is the
\* slot of the i-th value.
C12_PlaceholdersMatchValues ==
    FilterReturned =>
        LET q == call.val.query
            v == call.val.values
        IN  /\ Cardinality(Placeholders(q)) = Len(v)
            /\ \A p \in Placeholders(q) :
                  v[Cardinality({x \in Placeholders(q) : x <= p})] = SlotValue(q, p)

\* a nested tree with an empty child has been compiled to three or more slots
\* of different terms
C12_Witness ==
    /\ FilterReturned
    /\ call.args.filter.operation \in {"and", "or"}
    /\ \E i, j \in 1..Len(call.args.filter.children) :
          /\ call.args.filter.children[i].operation \in {"and", "or"}
          /\ filterToSQL(call.args.filter.children[j]).query = << >>
    /\ Len(call.val.values) >= 3
    /\ \E a, b \in 1..Len(call.val.values) : call.val.values[a] # call.val.values[b]

\* ---------------------------------------------------------------------------
\* C13  In every statement find, count, sum, insert, update, updateMany and
\* deleteMany hand to the pool, no ? is left, the markers are $1 .. $n from
\* left to right with n the number of values, and $k stands where the k-th
\* value belongs: behind the column of its SET item or filter term, or at the
\* place of its column in the column list of an insert.  In updateMany the
\* values of the SET clause therefore come before those of the filter.

Markers(sql) ==
    {p \in 1..Len(sql) : \E k \in 1..Len(sql) : sql[p] = "$" \o ToString(k)}

Rank(S, p) == Cardinality({x \in S : x <= p})

WherePos(sql) ==
    IF \E p \in 1..Len(sql) : sql[p] = " WHERE "
    THEN CHOOSE p \in 1..Len(sql) : sql[p] = " WHERE "
    ELSE Len(sql) + 1

\* the n-th quoted identifier of the statement
NthName(sql, n) ==
    LET Q == {p \in 1..Len(sql) : sql[p] = "\""}
        at(m) == CHOOSE p \in Q : Rank(Q, p) = m
    IN  SubSeq(sql, at(2 * n - 1) + 1, at(2 * n) - 1)

\* the entry of a row or descriptor that is stored in column col
EntryOfColumn(entries, col) ==
    entries[CHOOSE j \in 1..Len(entries) : toSQL(entries[j].k) = col]

\* the value that belongs at the marker at position p of the statement of call c
BoundValue(c, sql, p) ==
    LET col == SubSeq(sql, OpenQuote(sql, p) + 1, p - 3) IN
    CASE c.op \in {"find", "count", "sum", "deleteMany"} -> SlotValue(sql, p)
      [] c.op = "updateMany" ->
            IF p > WherePos(sql) THEN SlotValue(sql, p)
            ELSE LET e == EntryOfColumn(c.args.updated, col) IN
                 IF e.v.t = "object" /\ e.v.update \in {"set", "inc"}
                 THEN e.v.value ELSE toSQLCompatibleValue(e.v)
      [] c.op = "update" ->
            IF p > WherePos(sql) THEN KeyValue
            ELSE toSQLCompatibleValue(EntryOfColumn(c.args.updated, col).v)
      [] c.op = "insert" ->
            toSQLCompatibleValue(
                EntryOfColumn(c.args.row, NthName(sql, Rank(Markers(sql), p))).v)

\* C13: every statement handed to the pool has no ? left and the markers
\* $1 .. $n in textual order, n being the number of values, $k standing where
\* the k-th value belongs (SET values before filter values in updateMany).
C13_MarkersMatchValues ==
    \A i \in 1..Len(queries) :
        LET sql == queries[i].sql
            v == queries[i].values
        IN  /\ ~HasPlaceholder(sql)
            /\ Cardinality(Markers(sql)) = Len(v)
            /\ \A p \in Markers(sql) :
                  /\ sql[p] = "$" \o ToString(Rank(Markers(sql), p))
                  /\ v[Rank(Markers(sql), p)] = BoundValue(call, sql, p)

\* an updateMany statement with two SET values and three filter values
C13_Witness ==
    /\ call.op = "updateMany" /\ Len(queries) = 1
    /\ Len(call.args.updated) = 2
    /\ call.args.updated[1].v # call.args.updated[2].v
    /\ Len(queries[1].values) = 5
    /\ \E p \in Markers(queries[1].sql) :
          p > WherePos(queries[1].sql) /\ queries[1].sql[p] = "$5"

\* ---------------------------------------------------------------------------
\* C14  For every regex term, every % and _ of the unescaped pattern text is
\* matched literally by the bound LIKE pattern: the pattern's literal text is
\* the pattern text, and its only active wildcards are the anchoring % that
\* the translation adds (last for ^, first for $, both otherwise), also when
\* the pattern text contains backslashes.

\* How LIKE reads a pattern (backslash is its escape character): the list of
\* [wild |-> TRUE, c |-> "%" or "_"] and [wild |-> FALSE, c |-> character];
\* a backslash makes the next character a literal one, a backslash at the very
\* end is an error, shown as the literal "error"
RECURSIVE LikeRead(_)
LikeRead(pat) ==
    IF pat = << >> THEN << >>
    ELSE IF Head(pat) = "\\"
    THEN IF Len(pat) = 1 THEN <<[wild |-> FALSE, c |-> "error"]>>
         ELSE <<[wild |-> FALSE, c |-> pat[2]]>> \o LikeRead(SubSeq(pat, 3, Len(pat)))
    ELSE <<[wild |-> Head(pat) \in {"%", "_"}, c |-> Head(pat)]>> \o LikeRead(Tail(pat))

Literal(chars) == [i \in 1..Len(chars) |-> [wild |-> FALSE, c |-> chars[i]]]

AnyText == <<[wild |-> TRUE, c |-> "%"]>>

\* what the pattern of the term should mean: its text, anchored
Intended(rStr) ==
    LET n == Len(rStr) IN
    IF n > 0 /\ rStr[1] = "^" THEN Literal(SubSeq(rStr, 2, n)) \o AnyText
    ELSE IF n > 0 /\ rStr[n] = "$" THEN AnyText \o Literal(SubSeq(rStr, 1, n - 1))
    ELSE AnyText \o Literal(rStr) \o AnyText

RegexReturned == FilterReturned /\ call.args.filter.operation = "regex"

\* C14 (as stated): LIKE reads the bound pattern of a regex term as the
\* pattern text, all of it literal, with the anchoring % as only wildcards.
C14_WildcardsLiteral ==
    RegexReturned =>
        LikeRead(call.val.values[1].s) = Intended(reverseRegexp(call.args.filter.regexp))

\* the same for pattern texts without a backslash
C14_WildcardsLiteral_NoBackslash ==
    (RegexReturned /\ \A i \in 1..Len(reverseRegexp(call.args.filter.regexp)) :
                          reverseRegexp(call.args.filter.regexp)[i] # "\\")
        => LikeRead(call.val.values[1].s) = Intended(reverseRegexp(call.args.filter.regexp))

\* the pattern text is a backslash and a percent sign: the bound pattern reads
\* as a literal backslash followed by an active %
C14_BackslashPercent ==
    /\ RegexReturned
    /\ reverseRegexp(call.args.filter.regexp) = <<"\\", "%">>
    /\ LikeRead(call.val.values[1].s)
          = AnyText \o <<[wild |-> FALSE, c |-> "\\"], [wild |-> TRUE, c |-> "%"]>> \o AnyText

\* ---------------------------------------------------------------------------
\* C15  filterToSQL of an and / or node is the fragments of exactly the
\* children whose fragment is not empty, each in "( " " )", joined with AND /
\* OR in child order, with those children's values in the same order; with no
\* such child it is the empty fragment without values.  The null filter, a
\* not of an empty child and an in with no values are empty too, so a leading
\* In(f, []) child changes nothing: And([In(f, []), c]) is And([c]).

RECURSIVE Concat(_)
Concat(seqs) == IF seqs = << >> THEN << >> ELSE Head(seqs) \o Concat(Tail(seqs))

NonEmptyChildren(children) ==
    SelectSeq([i \in 1..Len(children) |-> filterToSQL(children[i])],
              LAMBDA r : r.query # << >>)

\* C15: an and / or node compiles to the join of its non-empty children and
\* their values; empty nodes compile to the empty fragment; a leading
\* In(f, []) child changes nothing.
C15_JunctionOfNonEmpty ==
    FilterReturned =>
        LET f == call.args.filter IN
        CASE f.operation \in {"and", "or"} ->
                LET kept == NonEmptyChildren(f.children) IN
                /\ call.val.query =
                      Join([i \in 1..Len(kept) |-> <<"( ">> \o kept[i].query \o <<" )">>],
                           IF f.operation = "and" THEN " AND " ELSE " OR ")
                /\ call.val.values = Concat([i \in 1..Len(kept) |-> kept[i].values])
                /\ (Len(kept) = 0 => call.val = NoFilterSQL)
                /\ (Len(f.children) > 0 /\ f.children[1] = In0
                        => call.val = filterToSQL([f EXCEPT !.children = Tail(@)]))
          [] f.operation = "null" -> call.val = NoFilterSQL
          [] f.operation = "not" ->
                (filterToSQL(f.child).query = << >> => call.val = NoFilterSQL)
          [] f.operation = "in" -> (f.values = << >> => call.val = NoFilterSQL)
          [] OTHER -> TRUE

\* And([In(f, []), c]) with a child c that compiles to a fragment with values
C15_Witness ==
    /\ FilterReturned
    /\ call.args.filter.operation = "and"
    /\ Len(call.args.filter.children) = 2
    /\ call.args.filter.children[1] = In0
    /\ call.val.query = <<"( ">> \o filterToSQL(call.args.filter.children[2]).query \o <<" )">>
    /\ Len(call.val.values) > 0

\* ---------------------------------------------------------------------------
\* C16  toCamelCase(toSnakeCase(x)) = x for every application-convention
\* identifier x (letters and digits, words marked by capitals), and
\* toSnakeCase(toCamelCase(y)) = y for every storage-convention identifier y
\* (lower-case letters and digits, words joined by single underscores), words
\* that begin with a digit included.

IsUpper(c) == ToLowerCase(c) # c

\* letters and digits only
IsApplication(id) == Len(id) > 0 /\ \A i \in 1..Len(id) : id[i] # "_"

\* lower-case words joined by single underscores
IsStorage(id) ==
    /\ Len(id) > 0
    /\ \A i \in 1..Len(id) : ~IsUpper(id[i])
    /\ id[1] # "_" /\ id[Len(id)] # "_"
    /\ \A i \in 1..(Len(id) - 1) : ~(id[i] = "_" /\ id[i + 1] = "_")

Converted == call.op = "convert" /\ call.ret = "returned"

\* C16 (as stated): both round trips give back the identifier, on the
\* application side and on the storage side.
C16_RoundTrips ==
    Converted =>
        /\ (IsApplication(call.args.id) => call.val.camelOfSnake = call.args.id)
        /\ (IsStorage(call.args.id) => call.val.snakeOfCamel = call.args.id)

\* the same, leaving out storage identifiers with a digit after an underscore
C16_RoundTrips_NoDigitWord ==
    Converted =>
        /\ (IsApplication(call.args.id) => call.val.camelOfSnake = call.args.id)
        /\ (IsStorage(call.args.id)
               /\ (\A i \in 1..(Len(call.args.id) - 1) :
                      call.args.id[i] = "_" => call.args.id[i + 1] \notin DOMAIN DigitOf)
             => call.val.snakeOfCamel = call.args.id)

\* a_1 comes back from toCamelCase as a1, and a1 from toSnakeCase as a1
C16_DigitWord ==
    /\ Converted
    /\ call.args.id = <<"a", "_", "1">>
    /\ call.val.camel = <<"a", "1">>
    /\ call.val.snakeOfCamel = <<"a", "1">>

\* ---------------------------------------------------------------------------
\* C17  update and updateMany both emit, for each field of the descriptor,
\* "<field>" = ? for a plain value or a set op and "<field>" = "<field>" + ?
\* for an increment op, and bind the inner value of an op, not the op record.

IsOp(v, kinds) == v.t = "object" /\ v.update \in kinds

\* the SET item of the j-th field, with its marker
ItemText(e, j) ==
    IF IsOp(e.v, {"inc"})
    THEN Quoted(e.k) \o <<" = ">> \o Quoted(e.k) \o <<" + ", "$" \o ToString(j)>>
    ELSE Quoted(e.k) \o <<" = ", "$" \o ToString(j)>>

SetText(updated) == Join([j \in 1..Len(updated) |-> ItemText(updated[j], j)], ", ")

\* the statement of call c sets exactly the fields of its descriptor, as claimed
SetAsClaimed(c, q) ==
    LET updated == c.args.updated
        set == SetText(updated)
    IN  /\ Len(q.sql) >= 3 + Len(set)
        /\ SubSeq(q.sql, 1, 3) = <<"UPDATE \"", TableName, "\" SET ">>
        /\ SubSeq(q.sql, 4, 3 + Len(set)) = set
        /\ (Len(q.sql) > 3 + Len(set) => q.sql[4 + Len(set)] = " WHERE ")
        /\ \A j \in 1..Len(updated) :
              q.values[j] = toSQLCompatibleValue(
                                IF IsOp(updated[j].v, {"set", "inc"})
                                THEN updated[j].v.value ELSE updated[j].v)

\* C17 (as stated): the statements of update and of updateMany set each field
\* as claimed, binding the inner value of an op.
C17_SetItems ==
    (call.op \in {"update", "updateMany"} /\ Len(queries) = 1)
        => SetAsClaimed(call, queries[1])

\* the same of updateMany alone
C17_SetItems_UpdateMany ==
    (call.op = "updateMany" /\ Len(queries) = 1) => SetAsClaimed(call, queries[1])

\* update with an increment op: a plain assignment bound to the op record
C17_UpdateBindsOpRecord ==
    /\ call.op = "update" /\ Len(queries) = 1
    /\ call.args.updated = <<[k |-> FieldN, v |-> UpdateOp("inc", 2)]>>
    /\ queries[1].sql = <<"UPDATE \"", TableName, "\" SET ", "\"", "n", "\"", " = ", "$1",
                          " WHERE ", "\"", "i", "d", "\"", " = ", "$2">>
    /\ queries[1].values = <<[t |-> "json", of |-> UpdateOp("inc", 2)], KeyValue>>

\* ---------------------------------------------------------------------------
\* C18  insert builds its column list from exactly the row's non-null fields.
\* With a null or absent primary key the key column is left out, RETURNING
\* "<key>" is appended and the callback receives the generated key; with a
\* concrete key the key is inserted as it is, nothing is appended and the
\* callback is not invoked.

NonNullFields(row) == SelectSeq(row, LAMBDA e : ~IsNullish(e.v))

\* the key is named and the row has no value for it
AutoKey(row, key) == ~key.null /\ IsNullish(RowGet(row, key.name))

InsertAsClaimed(row, key) ==
    LET fields == NonNullFields(row) IN
    [sql |-> <<"INSERT INTO \"", TableName, "\"(">>
                \o Join([j \in 1..Len(fields) |-> Quoted(fields[j].k)], ",")
                \o <<") VALUES (">>
                \o Join([j \in 1..Len(fields) |-> <<"$" \o ToString(j)>>], ",")
                \o <<")">>
                \o (IF AutoKey(row, key)
                    THEN <<" RETURNING \"">> \o toSQL(key.name) \o <<"\"">> ELSE << >>),
     values |-> [j \in 1..Len(fields) |-> toSQLCompatibleValue(fields[j].v)]]

InsertCalled == call.op = "insert" /\ Len(queries) = 1

\* C18 (as stated): the statement of insert has exactly the non-null fields
\* as columns, RETURNING and one callback invocation just for a null or absent
\* key.
C18_InsertColumns ==
    InsertCalled =>
        /\ queries[1] = InsertAsClaimed(call.args.row, call.args.key)
        /\ (~AutoKey(call.args.row, call.args.key) => cbLog = << >>)
        /\ (call.ret = "resolved" /\ AutoKey(call.args.row, call.args.key)
               => Len(cbLog) = 1)

\* the same for rows whose fields other than the key are all non-null
C18_InsertColumns_NoNullField ==
    (InsertCalled
       /\ \A j \in 1..Len(call.args.row) :
             IsNullish(call.args.row[j].v)
                => (~call.args.key.null /\ call.args.row[j].k = call.args.key.name))
        => /\ queries[1] = InsertAsClaimed(call.args.row, call.args.key)
           /\ (~AutoKey(call.args.row, call.args.key) => cbLog = << >>)
           /\ (call.ret = "resolved" /\ AutoKey(call.args.row, call.args.key)
                  => Len(cbLog) = 1)

\* a row with a null field that is not the key: the field is a column of the
\* statement, bound to null
C18_NullFieldIsColumn ==
    /\ InsertCalled
    /\ call.args.key = Key(FieldId)
    /\ RowGet(call.args.row, FieldId) = Num(5)
    /\ RowGet(call.args.row, FieldAB) = NullValue
    /\ Len(queries[1].values) = 3
    /\ queries[1].values[2] = NullValue
    /\ \E p \in 1..Len(queries[1].sql) :
          SubSeq(queries[1].sql, p, p + Len(toSQL(FieldAB)) - 1) = toSQL(FieldAB)

\* ---------------------------------------------------------------------------
\* C19  When the promise of findStream / findStreamSync is resolved, the
\* cursor of the call has been closed and its client released to the pool: a
\* caller that goes on after the call never finds the client checked out.

\* C19 (as stated): a resolved stream call has its cursor closed and its
\* client released.
C19_ReleasedWhenResolved ==
    \A s \in Streams :
        outcome[s] = "resolved" =>
            (closes[s] = 1 /\ releases[s] = 1 /\ s \notin checkedOut)

\* what does hold of a resolved call: the close has been issued
C19_CloseIssuedWhenResolved ==
    \A s \in Streams : outcome[s] = "resolved" => closes[s] = 1

\* the promise is resolved while the close callback has not run: the client
\* is still checked out
C19_ResolvedNotReleased ==
    \E s \in Streams :
        /\ outcome[s] = "resolved" /\ pc[s] = "closing"
        /\ releases[s] = 0 /\ s \in checkedOut
        /\ Len(delivered[s]) = rows[s]

=============================================================================
